---- MODULE Spec2Model ----
(***************************************************************************)
(* A model of the graph-node excerpt: the MockSourcableStore and its       *)
(* get_range and block pointer, the TriggersAdapterWrapper scan over it,   *)
(* the ASC padding                                                          *)
(* mirrors AscBad / AscBadFixed, the LinkResolver trait and the gnd         *)
(* (dev.rs) entry point.                                                    *)
(*                                                                          *)
(* Each component has its own specification (SpecStore, SpecTriggers, ...)  *)
(* over its own variables; the variables of the other components stay at    *)
(* their idle values.                                                       *)
(***************************************************************************)
EXTENDS Integers, Sequences, FiniteSets, TLC

VARIABLES
    entities,     \* MockSourcableStore.entities: a BTreeMap, block number -> entity list
    prevCall,     \* the get_range call before the last one (range and outcome)
    lastCall,     \* the last get_range call (range and outcome)
    sourceStores, \* TriggersAdapterWrapper: its sourceable stores, as handed to new()
    chainTriggers,\* the chain adapter's native triggers, per block number
    scanCall,     \* the last blocks_with_subgraph_triggers call and its outcome
    ascState,     \* the invocation: Idle, Allocating, Executing, Done, Trapped, Aborted
    ascInput,     \* the mirror struct, the API version, the host value, the heap start
    guestMem,     \* the guest heap written so far, byte by byte from the heap start
    strPtr,       \* AscPtr<AscString> of str_suff once allocated
    newObj,       \* the outcome of instance.asc_new(&parm)
    slack,        \* the guest memory past the last byte written, as the call finds it
    files,        \* the local file tree: the (directory, name) pairs that exist
    resolvers,    \* the link resolvers made so far, the first one first
    lastCat,      \* the last cat call and its outcome
    rcResolver,   \* the resolver a fetch runs on: its retry setting
    rcBackend,    \* the backend of the fetch: transient failures left, final answer
    rcState,      \* the fetch: Ready, Attempting, Backoff, Returned, Cancelled
    rcCall,       \* the fetch: cat or get_block, attempts made, transient failures seen
    rcResult,     \* what the fetch returned
    devOpt,       \* gnd: the command line and the build (DevOpt, cfg(unix))
    devPc,        \* gnd: where main is
    nodeTask,     \* gnd: the task spawned for run_graph_node
    watcherTask,  \* gnd: the task spawned for watch_subgraphs
    exit,         \* gnd: how the process ended (cause and exit code), once it has
    block_ptr,    \* MockSourcableStore.block_ptr: Option<BlockPtr>
    overflowChecks,\* the build: whether i32 arithmetic is overflow-checked
    ptrCall       \* the last block pointer operation: pointer before, outcome

storeVars == <<entities, prevCall, lastCall>>

triggerVars == <<sourceStores, chainTriggers, scanCall>>

ascVars == <<ascState, ascInput, guestMem, strPtr, newObj, slack>>

resolverVars == <<files, resolvers, lastCat>>

retryVars == <<rcResolver, rcBackend, rcState, rcCall, rcResult>>

devVars == <<devOpt, devPc, nodeTask, watcherTask, exit>>

ptrVars == <<block_ptr, overflowChecks, ptrCall>>

vars == <<storeVars, triggerVars, ascVars, resolverVars, retryVars, devVars, ptrVars>>

\* What the actions of one component leave alone: the other components.
exceptStore == <<triggerVars, ascVars, resolverVars, retryVars, devVars, ptrVars>>
exceptTriggers == <<storeVars, ascVars, resolverVars, retryVars, devVars, ptrVars>>
exceptAsc == <<storeVars, triggerVars, resolverVars, retryVars, devVars, ptrVars>>
exceptResolver == <<storeVars, triggerVars, ascVars, retryVars, devVars, ptrVars>>
exceptRetry == <<storeVars, triggerVars, ascVars, resolverVars, devVars, ptrVars>>
exceptDev == <<storeVars, triggerVars, ascVars, resolverVars, retryVars, ptrVars>>
exceptPtr == <<storeVars, triggerVars, ascVars, resolverVars, retryVars, devVars>>

(***************************************************************************)
(* Bounds of the model.                                                    *)
(***************************************************************************)
\* Block numbers stored and asked for are 0..MaxBlock (ranges go one past).
MaxBlock == 3

\* The wrapper's source stores hold blocks 0..MaxScanBlock.
MaxScanBlock == 2

(***************************************************************************)
(* std::collections::BTreeMap<BlockNumber, V>, as the sequence of its       *)
(* (key, value) pairs in iteration order.                                   *)
(***************************************************************************)
BTreeNew == <<>>

BTreeKeys(m) == {m[i][1] : i \in 1..Len(m)}

BTreeGet(m, k) == LET i == CHOOSE i \in 1..Len(m) : m[i][1] = k IN m[i][2]

\* BTreeMap::insert: replaces the value of a key already there, and otherwise
\* puts the pair at the key's place in the order.
BTreeInsert(m, k, v) ==
    IF k \in BTreeKeys(m)
    THEN [i \in 1..Len(m) |-> IF m[i][1] = k THEN <<k, v>> ELSE m[i]]
    ELSE LET before == SelectSeq(m, LAMBDA p : p[1] < k)
             after == SelectSeq(m, LAMBDA p : p[1] > k)
         IN before \o <<<<k, v>>>> \o after

\* Iterator::collect into a BTreeMap: the pairs inserted one after another.
RECURSIVE BTreeCollect(_)
BTreeCollect(pairs) ==
    IF pairs = <<>> THEN BTreeNew
    ELSE BTreeInsert(BTreeCollect(SubSeq(pairs, 1, Len(pairs) - 1)),
                     pairs[Len(pairs)][1], pairs[Len(pairs)][2])

\* A BTreeMap::range that takes the end of the range in (from..=to).
BTreeRangeInclusiveEnd(m, from, to) ==
    IF from > to
    THEN [kind |-> "Panic"]
    ELSE [kind |-> "Ok", pairs |-> SelectSeq(m, LAMBDA p : from <= p[1] /\ p[1] <= to)]

\* BTreeMap::range(from..to): the pairs with from <= key < to in key order.
\* The standard library panics when the range start is greater than its end.
BTreeRange(m, from, to) ==
    IF from > to
    THEN [kind |-> "Panic"]
    ELSE [kind |-> "Ok", pairs |-> SelectSeq(m, LAMBDA p : from <= p[1] /\ p[1] < to)]

(***************************************************************************)
(* EntityWithType values of the store: an entity type, an id and a vid.    *)
(***************************************************************************)
EntityWithType(type, vid) ==
    [entity_type |-> type, id |-> vid, entity_op |-> "Create", vid |-> vid]

\* The entity list of block b with n entities: the vids of block b are 2b+1
\* and 2b+2, so that vids grow with the block number.
EntityList(b, n) ==
    IF n = 1 THEN <<EntityWithType("User", 2 * b + 1)>>
    ELSE <<EntityWithType("User", 2 * b + 1), EntityWithType("Post", 2 * b + 2)>>

\* The stores the tests build: BTreeMap::new() and one insert per block that
\* holds entities (f[b] of them), the highest block inserted first.
RECURSIVE BuildStore(_, _)
BuildStore(f, b) ==
    IF b < 0 THEN BTreeNew
    ELSE IF f[b] = 0 THEN BuildStore(f, b - 1)
    ELSE BTreeInsert(BuildStore(f, b - 1), b, EntityList(b, f[b]))

StoreContents == { BuildStore(f, MaxBlock) : f \in [0..MaxBlock -> 0..2] }

(***************************************************************************)
(* MockSourcableStore::get_range                                           *)
(***************************************************************************)
\* A get_range that leaves the first block of the range out.
get_range_skipping_first(store, from, to) ==
    LET r == BTreeRange(store, from + 1, to)
    IN IF from > to \/ r.kind = "Panic" THEN [kind |-> "Panic"]
       ELSE [kind |-> "Ok", map |-> BTreeCollect(r.pairs)]

\* A get_range that loses the last block of the range.
get_range_dropping_last(store, from, to) ==
    LET r == BTreeRange(store, from, to)
    IN IF r.kind = "Panic" THEN [kind |-> "Panic"]
       ELSE [kind |-> "Ok",
             map |-> BTreeCollect(SubSeq(r.pairs, 1, Len(r.pairs) - 1))]

\* A get_range that gives each block's entities last first.
get_range_reversing_lists(store, from, to) ==
    LET r == BTreeRange(store, from, to)
        Reverse(v) == [i \in 1..Len(v) |-> v[Len(v) + 1 - i]]
    IN IF r.kind = "Panic" THEN [kind |-> "Panic"]
       ELSE [kind |-> "Ok",
             map |-> BTreeCollect([i \in 1..Len(r.pairs) |->
                                      <<r.pairs[i][1], Reverse(r.pairs[i][2])>>])]

\* self.entities.range(block_range).map(|(k, v)| (*k, v.clone())).collect()
get_range(store, from, to) ==
    LET r == BTreeRange(store, from, to)
    IN IF r.kind = "Panic" THEN [kind |-> "Panic"]
       ELSE [kind |-> "Ok", map |-> BTreeCollect(r.pairs)]

\* The ranges a caller passes: Range<BlockNumber> values start..end, any two
\* numbers (a range whose start is past its end is a value of the type too).
RangeBounds == 0..(MaxBlock + 1)

NoCall == [kind |-> "NoCall"]

\* The components at rest, for the specifications of the other components.
StoreIdle == entities = BTreeNew /\ prevCall = NoCall /\ lastCall = NoCall

TriggersIdle == sourceStores = <<>> /\ chainTriggers = <<>> /\ scanCall = NoCall

AscIdle ==
    /\ ascState = "Off" /\ ascInput = NoCall /\ guestMem = <<>>
    /\ strPtr = 0 /\ newObj = NoCall /\ slack = <<>>

ResolverIdle == files = {} /\ resolvers = <<>> /\ lastCat = NoCall

RetryIdle ==
    /\ rcResolver = NoCall /\ rcBackend = NoCall /\ rcState = "Off"
    /\ rcCall = NoCall /\ rcResult = NoCall

DevIdle ==
    /\ devOpt = NoCall /\ devPc = "Off" /\ nodeTask = "None"
    /\ watcherTask = "None" /\ exit = NoCall

\* Option<BlockPtr>: None, and Some(BlockPtr { hash, number }).
NoPtr == [some |-> FALSE, hash |-> "", number |-> 0]

PtrIdle == block_ptr = NoPtr /\ overflowChecks = TRUE /\ ptrCall = NoCall

InitStore ==
    /\ entities \in StoreContents
    /\ prevCall = NoCall
    /\ lastCall = NoCall
    /\ TriggersIdle /\ AscIdle /\ ResolverIdle /\ RetryIdle /\ DevIdle /\ PtrIdle

\* One call of get_range; the store keeps no trace of it (&self), the model
\* remembers the last two calls and their outcomes. A call that panicked
\* unwinds its caller: none follows it.
GetRange ==
    \E from \in RangeBounds, to \in RangeBounds :
        /\ lastCall.kind = "Call" => lastCall.result.kind # "Panic"
        /\ lastCall' = [kind |-> "Call", from |-> from, to |-> to,
                        result |-> get_range(entities, from, to)]
        /\ prevCall' = lastCall
        /\ UNCHANGED <<entities, exceptStore>>

NextStore == GetRange

SpecStore == InitStore /\ [][NextStore]_vars

(***************************************************************************)
(* Claims about get_range.                                                 *)
(***************************************************************************)
\* The block numbers of the range from..to, as a set (empty when from >= to).
RangeSet(from, to) == {b \in RangeBounds : from <= b /\ b < to}

\* A map restricted to the block numbers of a set.
Restrict(m, blocks) == SelectSeq(m, LAMBDA p : p[1] \in blocks)

\* m holds exactly the stored blocks of from..to, in ascending order of the
\* block number, each with the list the store holds for it.
HoldsExactlyRange(store, from, to, m) ==
    /\ BTreeKeys(m) = {k \in BTreeKeys(store) : from <= k /\ k < to}
    /\ \A i \in 1..(Len(m) - 1) : m[i][1] < m[i + 1][1]
    /\ \A i \in 1..Len(m) : m[i][2] = BTreeGet(store, m[i][1])

BothCalled == prevCall.kind = "Call" /\ lastCall.kind = "Call"

\* The range of call a lies within the range of call b, as sets of block numbers.
WithinRange(a, b) == RangeSet(a.from, a.to) \subseteq RangeSet(b.from, b.to)

\* The outcome of call a is the outcome of call b restricted to the range of a.
IsRestriction(a, b) ==
    /\ a.result.kind = "Ok"
    /\ b.result.kind = "Ok"
    /\ a.result.map = Restrict(b.result.map, RangeSet(a.from, a.to))

\* C1 as stated: for every store content and every two ranges R1 \subseteq R2
\* (as sets of block numbers), get_range(R1) is get_range(R2) restricted to
\* R1, whichever of the two is asked first.
C1_MonotoneEveryRange ==
    BothCalled =>
        /\ WithinRange(prevCall, lastCall) => IsRestriction(prevCall, lastCall)
        /\ WithinRange(lastCall, prevCall) => IsRestriction(lastCall, prevCall)

OrderedRange(c) == c.from <= c.to

\* C1 amended: for every store content and every two ranges R1 \subseteq R2
\* neither of which starts past its end, get_range(R1) is get_range(R2)
\* restricted to the block numbers of R1: same keys, same lists, same order.
C1_MonotoneOrderedRanges ==
    (BothCalled /\ OrderedRange(prevCall) /\ OrderedRange(lastCall)) =>
        /\ WithinRange(prevCall, lastCall) => IsRestriction(prevCall, lastCall)
        /\ WithinRange(lastCall, prevCall) => IsRestriction(lastCall, prevCall)

\* A narrower range asked before a wider one, both holding blocks,
\* the wider one holding a block the narrower one leaves out.
C1_Witness ==
    /\ BothCalled
    /\ prevCall.from < prevCall.to
    /\ lastCall.from < prevCall.from /\ prevCall.to < lastCall.to
    /\ prevCall.result.kind = "Ok" /\ lastCall.result.kind = "Ok"
    /\ Len(prevCall.result.map) >= 1
    /\ Len(lastCall.result.map) > Len(prevCall.result.map)
    /\ prevCall.to \in BTreeKeys(entities)

\* C10 as stated: get_range(from..to) returns exactly the stored blocks b with
\* from <= b < to in ascending order with their lists; for a range that holds
\* no stored block and for from >= to it returns an empty map, not an error.
C10_HalfOpenEveryRange ==
    lastCall.kind = "Call" =>
        /\ lastCall.result.kind = "Ok"
        /\ HoldsExactlyRange(entities, lastCall.from, lastCall.to, lastCall.result.map)

\* C10 amended: for from <= to, get_range(from..to) returns exactly the stored
\* blocks b with from <= b < to (from in, to out) in ascending block order,
\* each with its stored list, and an empty map when there is none or
\* from = to; for from > to the call panics (BTreeMap::range).
C10_HalfOpenOrderedRange ==
    lastCall.kind = "Call" =>
        IF lastCall.from <= lastCall.to
        THEN /\ lastCall.result.kind = "Ok"
             /\ HoldsExactlyRange(entities, lastCall.from, lastCall.to,
                                  lastCall.result.map)
        ELSE lastCall.result.kind = "Panic"

\* A call whose range starts at a stored block and ends at a stored block:
\* the first is in the result and the second is not.
C10_Witness ==
    /\ lastCall.kind = "Call"
    /\ lastCall.from + 1 < lastCall.to
    /\ {lastCall.from, lastCall.from + 1, lastCall.to} \subseteq BTreeKeys(entities)
    /\ lastCall.result.kind = "Ok"
    /\ lastCall.from \in BTreeKeys(lastCall.result.map)
    /\ lastCall.to \notin BTreeKeys(lastCall.result.map)
    /\ Len(lastCall.result.map) >= 2

(***************************************************************************)
(* TriggersAdapterWrapper::blocks_with_subgraph_triggers over sourceable   *)
(* stores (MockSourcableStore) and a chain adapter.                        *)
(***************************************************************************)
\* The deployment hashes of the source stores, as their ranks in the order of
\* their text.
DeploymentHashes == {1, 2}

\* The source stores of a wrapper: the store of deployment 1 holds two
\* entities (a User, then a Post) at each of its blocks, the store of
\* deployment 2 one User.
SourceStore(hash, f) == [hash |-> hash, entities |-> BuildStore(f, MaxScanBlock)]

SourceStoreChoices(hash) ==
    { SourceStore(hash, f) : f \in [0..MaxScanBlock -> {0, 3 - hash}] }

\* The native triggers of the chain adapter: none (MockTriggersAdapter), one
\* per block, or one per odd block.
NativeTrigger(b) ==
    [kind |-> "Native", source |-> 0, block |-> b, entity_type |-> "", vid |-> 0]

ChainTriggerChoices ==
    { [b \in 0..MaxScanBlock |-> <<>>],
      [b \in 0..MaxScanBlock |-> <<NativeTrigger(b)>>],
      [b \in 0..MaxScanBlock |-> IF b % 2 = 1 THEN <<NativeTrigger(b)>> ELSE <<>>] }

\* SubgraphFilter { subgraph, start_block, entities }
SubgraphFilter(subgraph, start_block, types) ==
    [subgraph |-> subgraph, start_block |-> start_block, entities |-> types]

\* The filter lists of a call: at most one filter per source deployment.
FilterChoices ==
    LET first == { <<>> } \cup
            { <<SubgraphFilter(1, sb, ts)>> :
                sb \in {0, 1}, ts \in {{"User"}, {"User", "Post"}} }
        second == { <<>>, <<SubgraphFilter(2, 0, {"User", "Post"})>> }
    IN { a \o b : a \in first, b \in second }

\* The entity-subgraph trigger of an entity of a source deployment.
EntityTrigger(hash, b, e) ==
    [kind |-> "Entity", source |-> hash, block |-> b,
     entity_type |-> e.entity_type, vid |-> e.vid]

\* The stores in the order of their deployment hashes.
RECURSIVE StoresByHash(_)
StoresByHash(stores) ==
    IF stores = <<>> THEN <<>>
    ELSE LET least == CHOOSE i \in 1..Len(stores) :
                          \A j \in 1..Len(stores) : stores[i].hash <= stores[j].hash
         IN <<stores[least]>> \o
            StoresByHash(SubSeq(stores, 1, least - 1) \o
                         SubSeq(stores, least + 1, Len(stores)))

MapSeq(seq, Op(_)) == [i \in 1..Len(seq) |-> Op(seq[i])]

RECURSIVE Flatten(_)
Flatten(seqs) == IF seqs = <<>> THEN <<>> ELSE Head(seqs) \o Flatten(Tail(seqs))

\* The filters of a call that name the deployment of a store.
FiltersFor(filters, hash) == SelectSeq(filters, LAMBDA f : f.subgraph = hash)

\* What one store gives for one filter over Range(from, to): its get_range over
\* from..to+1 (to is part of the scan).
StoreScan(store, filter, from, to) ==
    get_range(store.entities, from, to + 1)

\* The entity triggers of block b from one store and one filter: the entities
\* of the filter's types, in the order get_range gave them, none before the
\* filter's start block.
EntityTriggersOf(store, filter, from, to, b) ==
    LET r == StoreScan(store, filter, from, to)
        list == IF b \in BTreeKeys(r.map) /\ b >= filter.start_block
                THEN BTreeGet(r.map, b) ELSE <<>>
        wanted == SelectSeq(list, LAMBDA e : e.entity_type \in filter.entities)
    IN MapSeq(wanted, LAMBDA e : EntityTrigger(store.hash, b, e))

\* A merge that puts the entity triggers of a block before its native ones.
MergeEntityFirst(native, entity) == entity \o native

\* The triggers of a block: the native triggers, then the entity triggers.
MergeBlockTriggers(native, entity) == native \o entity

\* The entity triggers of block b: source by source in the order of the
\* deployment hashes, each source's in the order the store gave them.
BlockEntityTriggers(stores, filters, from, to, b) ==
    Flatten(MapSeq(StoresByHash(stores), LAMBDA s :
        Flatten(MapSeq(FiltersFor(filters, s.hash), LAMBDA f :
            EntityTriggersOf(s, f, from, to, b)))))

RECURSIVE BlocksFrom(_, _, _, _, _, _)
BlocksFrom(stores, chain, filters, from, to, b) ==
    IF b > to THEN <<>>
    ELSE LET native == IF b \in DOMAIN chain THEN chain[b] ELSE <<>>
             triggers == MergeBlockTriggers(native,
                             BlockEntityTriggers(stores, filters, from, to, b))
             rest == BlocksFrom(stores, chain, filters, from, to, b + 1)
         IN IF triggers = <<>> THEN rest
            ELSE <<[block |-> b, triggers |-> triggers]>> \o rest

\* blocks_with_subgraph_triggers(filters, Range(from, to)): the blocks of
\* from..to (both ends) that have triggers, in ascending order; an empty range
\* gives an empty list. A store's panic unwinds the call.
blocks_with_subgraph_triggers(stores, chain, filters, from, to) ==
    IF from > to THEN [kind |-> "Ok", blocks |-> <<>>]
    ELSE IF \E i \in 1..Len(stores) : \E j \in 1..Len(filters) :
              /\ filters[j].subgraph = stores[i].hash
              /\ StoreScan(stores[i], filters[j], from, to).kind = "Panic"
         THEN [kind |-> "Panic"]
         ELSE [kind |-> "Ok",
               blocks |-> BlocksFrom(stores, chain, filters, from, to, from)]

ScanBounds == 0..(MaxScanBlock + 1)

InitTriggers ==
    /\ \E a \in SourceStoreChoices(1), b \in SourceStoreChoices(2) :
           sourceStores \in { <<a, b>>, <<b, a>> }
    /\ chainTriggers \in ChainTriggerChoices
    /\ scanCall = NoCall
    /\ StoreIdle /\ AscIdle /\ ResolverIdle /\ RetryIdle /\ DevIdle /\ PtrIdle

\* One call of blocks_with_subgraph_triggers with SubgraphTriggerScanRange::Range.
ScanRange ==
    \E filters \in FilterChoices, from \in ScanBounds, to \in ScanBounds :
        /\ scanCall = NoCall
        /\ scanCall' = [kind |-> "Call", filters |-> filters, from |-> from, to |-> to,
                        result |-> blocks_with_subgraph_triggers(
                                       sourceStores, chainTriggers, filters, from, to)]
        /\ UNCHANGED <<sourceStores, chainTriggers, exceptTriggers>>

\* The caller takes the outcome of the call; the wrapper (&self) keeps nothing
\* of it. A call that panicked unwinds its caller: none follows it.
ScanReturn ==
    /\ scanCall.kind = "Call"
    /\ scanCall.result.kind # "Panic"
    /\ scanCall' = NoCall
    /\ UNCHANGED <<sourceStores, chainTriggers, exceptTriggers>>

NextTriggers == ScanRange \/ ScanReturn

SpecTriggers == InitTriggers /\ [][NextTriggers]_vars

(***************************************************************************)
(* Claims about blocks_with_subgraph_triggers.                             *)
(***************************************************************************)
Scanned == scanCall.kind = "Call"

\* The filters of the call that match a source store from the start of the
\* scan on: the store's deployment, a start block not past from.
MatchingPairs ==
    { <<i, j>> \in (1..Len(sourceStores)) \X (1..Len(scanCall.filters)) :
        /\ scanCall.filters[j].subgraph = sourceStores[i].hash
        /\ scanCall.filters[j].start_block <= scanCall.from }

\* The entities a matching pair has to show: those of the filter's types the
\* store holds at a block of from..to, both ends included.
DueTriggers(i, j) ==
    LET store == sourceStores[i]
        filter == scanCall.filters[j]
        held == { b \in scanCall.from..scanCall.to : b \in BTreeKeys(store.entities) }
    IN UNION { { EntityTrigger(store.hash, b, BTreeGet(store.entities, b)[k]) :
                   k \in { k \in 1..Len(BTreeGet(store.entities, b)) :
                             BTreeGet(store.entities, b)[k].entity_type
                                 \in filter.entities } } :
               b \in held }

\* The trigger is one of the triggers of its block in the result.
Shown(t) ==
    \E n \in 1..Len(scanCall.result.blocks) :
        /\ scanCall.result.blocks[n].block = t.block
        /\ \E m \in 1..Len(scanCall.result.blocks[n].triggers) :
               scanCall.result.blocks[n].triggers[m] = t

\* Within every block of the result, the entity triggers of one source are
\* in ascending order of their vids.
VidsAscend ==
    \A n \in 1..Len(scanCall.result.blocks) :
        LET ts == scanCall.result.blocks[n].triggers
        IN \A a \in 1..Len(ts), b \in 1..Len(ts) :
               (a < b /\ ts[a].kind = "Entity" /\ ts[b].kind = "Entity"
                      /\ ts[a].source = ts[b].source)
                   => ts[a].vid < ts[b].vid

U64Zero == <<0, 0, 0, 0>>
U64Max == <<65535, 65535, 65535, 65535>>
I64Max == <<65535, 65535, 65535, 32767>>

\* Strings as the sequences of their UTF-16 code units.
StrSuff == <<115, 117, 102, 102>>
StrPref == <<112, 114, 101, 102>>

\* u64::to_asc_bytes: the eight bytes, least significant first.
u64_to_asc_bytes(x) ==
    Flatten([i \in 1..4 |-> <<x[i] % 256, x[i] \div 256>>])

\* u32::to_asc_bytes and AscPtr::to_asc_bytes (a 32-bit guest offset): the four
\* bytes, least significant first.
u32_to_asc_bytes(n) ==
    <<n % 256, (n \div 256) % 256, (n \div 65536) % 256, (n \div 16777216) % 256>>

\* The guest's read of a u32 from four bytes.
u32_from_bytes(b) == b[1] + 256 * b[2] + 65536 * b[3] + 16777216 * b[4]

\* AscString: the count of code units, then the code units, two bytes each.
AscStringBytes(str) ==
    u32_to_asc_bytes(Len(str)) \o Flatten([i \in 1..Len(str) |-> <<str[i] % 256, str[i] \div 256>>])

\* Sizes and alignments of the field types (a 64-bit host, a 32-bit guest
\* pointer).
FieldSize(t) == IF t = "u64" THEN 8 ELSE 4

FieldAlign(t) == IF t = "u64" THEN 8 ELSE 4

AlignUp(n, a) == ((n + a - 1) \div a) * a

\* #[repr(C)]: the offset of field i, each field at the next multiple of its
\* alignment.
RECURSIVE FieldOffset(_, _)
FieldOffset(fields, i) ==
    IF i = 1 THEN 0
    ELSE AlignUp(FieldOffset(fields, i - 1) + FieldSize(fields[i - 1]),
                 FieldAlign(fields[i]))

RECURSIVE MaxAlign(_)
MaxAlign(fields) ==
    IF fields = <<>> THEN 1
    ELSE LET m == MaxAlign(Tail(fields))
         IN IF FieldAlign(Head(fields)) > m THEN FieldAlign(Head(fields)) ELSE m

\* std::mem::size_of of a #[repr(C)] struct.
size_of(fields) ==
    AlignUp(FieldOffset(fields, Len(fields)) + FieldSize(fields[Len(fields)]),
            MaxAlign(fields))

\* pub struct AscBad { nonce: u64, str_suff: AscPtr<AscString>, tail: u64 }
AscBadFields == <<"u64", "AscPtr", "u64">>

\* pub struct AscBadFixed { nonce, str_suff, _padding: u32, tail }
AscBadFixedFields == <<"u64", "AscPtr", "u32", "u64">>

\* An AscBad::to_asc_bytes that refuses a byte count other than the struct's
\* size.
AscBad_to_asc_bytes_checked(obj) ==
    LET bytes == u64_to_asc_bytes(obj.nonce) \o u32_to_asc_bytes(obj.str_suff)
                 \o u64_to_asc_bytes(obj.tail)
    IN IF Len(bytes) # size_of(AscBadFields)
       THEN [kind |-> "Err"]
       ELSE [kind |-> "Ok", bytes |-> bytes]

\* An AscBad::to_asc_bytes that writes the four bytes of padding.
AscBad_to_asc_bytes_padded(obj) ==
    [kind |-> "Ok",
     bytes |-> u64_to_asc_bytes(obj.nonce) \o u32_to_asc_bytes(obj.str_suff)
               \o u32_to_asc_bytes(0) \o u64_to_asc_bytes(obj.tail)]

\* AscBad::to_asc_bytes: the fields one after another; the assert! panics
\* unless the byte count differs from the size of the struct.
AscBad_to_asc_bytes(obj) ==
    LET in_memory_byte_count == size_of(AscBadFields)
        bytes == u64_to_asc_bytes(obj.nonce) \o u32_to_asc_bytes(obj.str_suff)
                 \o u64_to_asc_bytes(obj.tail)
    IN IF ~(Len(bytes) # in_memory_byte_count)
       THEN [kind |-> "Panic"]
       ELSE [kind |-> "Ok", bytes |-> bytes]

\* An AscBadFixed::to_asc_bytes that forgets the _padding field.
AscBadFixed_to_asc_bytes_unpadded(obj) ==
    [kind |-> "Ok",
     bytes |-> u64_to_asc_bytes(obj.nonce) \o u32_to_asc_bytes(obj.str_suff)
               \o u64_to_asc_bytes(obj.tail)]

\* AscBadFixed::to_asc_bytes: the fields one after another, _padding among
\* them; the assert_eq! panics unless the byte count is the size of the struct.
AscBadFixed_to_asc_bytes(obj) ==
    LET in_memory_byte_count == size_of(AscBadFixedFields)
        bytes == u64_to_asc_bytes(obj.nonce) \o u32_to_asc_bytes(obj.str_suff)
                 \o u32_to_asc_bytes(obj._padding) \o u64_to_asc_bytes(obj.tail)
    IN IF Len(bytes) # in_memory_byte_count
       THEN [kind |-> "Panic"]
       ELSE [kind |-> "Ok", bytes |-> bytes]

\* ToAscObj::to_asc_obj of Bad and of BadFixed, the string already allocated.
to_asc_obj(mirror, parm, str_ptr) ==
    IF mirror = "AscBad"
    THEN [nonce |-> parm.nonce, str_suff |-> str_ptr, tail |-> parm.tail]
    ELSE [nonce |-> parm.nonce, str_suff |-> str_ptr, _padding |-> 0, tail |-> parm.tail]

to_asc_bytes(mirror, obj) ==
    IF mirror = "AscBad" THEN AscBad_to_asc_bytes(obj) ELSE AscBadFixed_to_asc_bytes(obj)

\* The host values of the tests and some others.
TestParm == [nonce |-> I64Max, str_suff |-> StrSuff, tail |-> I64Max]

Parms ==
    [nonce : {I64Max, U64Zero}, str_suff : {StrSuff, StrPref},
     tail : {I64Max, U64Zero, U64Max}]

\* Where the guest heap starts: pointers of one, two and three bytes.
HeapStarts == {16, 4096, 1048576}

AscInputs ==
    [mirror : {"AscBad", "AscBadFixed"}, api_version : {"0.0.4", "0.0.5"},
     parm : Parms, heap_start : HeapStarts]

\* What the memory past the written bytes may hold, byte by byte.
SlackBytes == {0, 127, 255}

\* The guest class ManualPadding { nonce: i64, str_suff: string, tail: i64 }.
GuestFields == <<"u64", "AscPtr", "u64">>

\* The guest's read of n bytes at an address: the bytes written there, and
\* past them what the memory holds.
MemRead(mem, heap_start, past, addr, n) ==
    [i \in 1..n |->
        LET at == addr - heap_start + i
        IN IF at >= 1 /\ at <= Len(mem) THEN mem[at]
           ELSE IF at > Len(mem) /\ at - Len(mem) <= Len(past) THEN past[at - Len(mem)]
           ELSE 0]

\* test_padding_manual(parm): the guest reads its three fields at the offsets
\* of its own layout and asserts nonce = i64::MAX, str_suff = "suff" and
\* tail = i64::MAX; a failed assertion aborts (a trap).
test_padding_manual(mem, heap_start, past, ptr) ==
    LET at(i) == ptr + FieldOffset(GuestFields, i)
        nonce == MemRead(mem, heap_start, past, at(1), FieldSize("u64"))
        sptr == u32_from_bytes(MemRead(mem, heap_start, past, at(2), FieldSize("AscPtr")))
        tail == MemRead(mem, heap_start, past, at(3), FieldSize("u64"))
        expect == AscStringBytes(StrSuff)
        str == MemRead(mem, heap_start, past, sptr, Len(expect))
    IN IF /\ nonce = u64_to_asc_bytes(I64Max)
          /\ str = expect
          /\ tail = u64_to_asc_bytes(I64Max)
       THEN "Done" ELSE "Trapped"

InitAsc ==
    /\ ascState = "Idle"
    /\ ascInput \in AscInputs
    /\ guestMem = <<>>
    /\ strPtr = 0
    /\ newObj = NoCall
    /\ slack = <<>>
    /\ StoreIdle /\ TriggersIdle /\ ResolverIdle /\ RetryIdle /\ DevIdle /\ PtrIdle

\* instance.asc_new(&parm), first half: to_asc_obj allocates str_suff in the
\* guest heap.
AscNewString ==
    /\ ascState = "Idle"
    /\ ascState' = "Allocating"
    /\ strPtr' = ascInput.heap_start + Len(guestMem)
    /\ guestMem' = guestMem \o AscStringBytes(ascInput.parm.str_suff)
    /\ UNCHANGED <<ascInput, newObj, slack, exceptAsc>>

\* instance.asc_new(&parm), second half: the struct is serialized and written
\* to the guest heap; .unwrap() aborts the test when that failed.
AscNewStruct ==
    /\ ascState = "Allocating"
    /\ newObj = NoCall
    /\ LET enc == to_asc_bytes(ascInput.mirror,
                               to_asc_obj(ascInput.mirror, ascInput.parm, strPtr))
       IN IF enc.kind = "Ok"
          THEN /\ newObj' = [kind |-> "Ok", wasm_ptr |-> ascInput.heap_start + Len(guestMem),
                             len |-> Len(enc.bytes)]
               /\ guestMem' = guestMem \o enc.bytes
               /\ ascState' = ascState
          ELSE /\ newObj' = [kind |-> enc.kind, wasm_ptr |-> 0, len |-> 0]
               /\ guestMem' = guestMem
               /\ ascState' = "Aborted"
    /\ UNCHANGED <<ascInput, strPtr, slack, exceptAsc>>

\* func.call(.., new_obj.wasm_ptr()): the guest starts on the memory as it is.
CallExport ==
    /\ ascState = "Allocating"
    /\ newObj.kind = "Ok"
    /\ ascState' = "Executing"
    /\ slack' \in [1..4 -> SlackBytes]
    /\ UNCHANGED <<ascInput, guestMem, strPtr, newObj, exceptAsc>>

\* The export returns or traps.
GuestReturn ==
    /\ ascState = "Executing"
    /\ ascState' = test_padding_manual(guestMem, ascInput.heap_start, slack, newObj.wasm_ptr)
    /\ UNCHANGED <<ascInput, guestMem, strPtr, newObj, slack, exceptAsc>>

NextAsc == AscNewString \/ AscNewStruct \/ CallExport \/ GuestReturn

SpecAsc == InitAsc /\ [][NextAsc]_vars

(***************************************************************************)
(* Claims about the ASC codec.                                             *)
(***************************************************************************)
MirrorFields(mirror) == IF mirror = "AscBad" THEN AscBadFields ELSE AscBadFixedFields

\* The byte count of a struct's fields written one after another.
RECURSIVE SerializedLen(_)
SerializedLen(fields) ==
    IF fields = <<>> THEN 0 ELSE FieldSize(Head(fields)) + SerializedLen(Tail(fields))

Encoded == ascState # "Off" /\ newObj # NoCall

\* C4 as stated: for a value whose serialized byte length differs from the
\* in-memory size of its struct, to_asc_bytes / asc_new returns an error
\* instead of bytes or a pointer.
C4_MismatchIsEncodeError ==
    (Encoded /\ SerializedLen(MirrorFields(ascInput.mirror))
                    # size_of(MirrorFields(ascInput.mirror)))
        => newObj.kind # "Ok"

\* C4 amended: encoding AscBad is no error at encode time: to_asc_bytes returns
\* Ok with 20 bytes although the struct takes 24 in memory, and asc_new
\* returns a pointer to the 20 bytes written to the guest heap.
C4_MismatchEncodes ==
    (Encoded /\ ascInput.mirror = "AscBad") =>
        /\ newObj.kind = "Ok"
        /\ newObj.len = 20
        /\ size_of(AscBadFields) = 24
        /\ newObj.len = SerializedLen(AscBadFields)
        /\ newObj.wasm_ptr = ascInput.heap_start + Len(guestMem) - newObj.len
        /\ ascState # "Aborted"

\* The value of the test encoded through AscBad, the string and the struct in
\* the guest heap.
C4_Witness ==
    /\ Encoded
    /\ ascInput.mirror = "AscBad"
    /\ ascInput.parm = TestParm
    /\ newObj.kind = "Ok"
    /\ Len(guestMem) = Len(AscStringBytes(StrSuff)) + 20
    /\ ascState = "Allocating"

\* C5: test_padding_manual called with a pointer to the struct of the test
\* encoded through AscBad (no padding between str_suff and tail) never ends
\* Done: the invocation ends Trapped, under both API versions and whatever the
\* memory past the 20 bytes holds.
C5_UnpaddedCallTraps ==
    (ascState # "Off" /\ ascInput.mirror = "AscBad" /\ ascInput.parm = TestParm) =>
        /\ ascState # "Done"
        /\ ascState # "Aborted"

\* The call on the AscBad struct of the test has trapped, the memory past the
\* struct holding the bytes that would complete an i64::MAX.
C5_Witness ==
    /\ ascState = "Trapped"
    /\ ascInput.mirror = "AscBad"
    /\ ascInput.parm = TestParm
    /\ ascInput.api_version = "0.0.5"
    /\ slack = <<255, 255, 255, 127>>

\* C6: AscBadFixed::to_asc_bytes writes 8 + 4 + 4 + 8 = 24 bytes, the size of
\* the struct, for every field value, and asc_new succeeds; test_padding_manual
\* called on the pointer of the struct of the test returns (Done).
C6_PaddedEncodesAndReturns ==
    (ascState # "Off" /\ ascInput.mirror = "AscBadFixed") =>
        /\ ascState # "Aborted"
        /\ newObj # NoCall =>
              /\ newObj.kind = "Ok"
              /\ newObj.len = 24
              /\ newObj.len = size_of(AscBadFixedFields)
              /\ newObj.len = 8 + 4 + 4 + 8
        /\ ascInput.parm = TestParm => ascState # "Trapped"

\* The call on the AscBadFixed struct of the test has returned.
C6_Witness ==
    /\ ascState = "Done"
    /\ ascInput.mirror = "AscBadFixed"
    /\ ascInput.parm = TestParm
    /\ ascInput.api_version = "0.0.4"
    /\ newObj.kind = "Ok" /\ newObj.len = 24

(***************************************************************************)
(* LinkResolver: for_deployment and cat over the three backends.           *)
(***************************************************************************)
\* Deployments 1..MaxDeployments; the build directory of deployment h is
\* directory h of the file tree.
MaxDeployments == 2

\* At most MaxResolvers resolvers are made in one run.
MaxResolvers == 3

Deployments == 1..MaxDeployments

BuildDir(hash) == hash

FileNames == {"schema.graphql", "mapping.wasm"}

\* A link: a name, relative (dir = 0) or under a directory of the file tree.
Links == [dir : 0..MaxDeployments, name : FileNames]

\* What the content-addressed and the permanent-storage networks hold.
RemoteContent == {"schema.graphql"}

NoBase == 0

\* FileLinkResolver::new(base_dir, aliases), and the resolvers of the two
\* networks.
FileLinkResolver_new(base_dir) == [kind |-> "File", base_dir |-> base_dir]

RemoteResolver(kind) == [kind |-> kind, base_dir |-> NoBase]

\* A gnd that starts its file resolver in the build directory of deployment 1.
DevResolverBased == FileLinkResolver_new(BuildDir(1))

\* dev.rs: FileLinkResolver::new(None, source_subgraph_aliases.clone())
DevResolver == FileLinkResolver_new(NoBase)

\* cat on the local file tree: an absolute link as it is, a relative link
\* under the base directory, and no file without one.
FileCat(r, link, tree) ==
    LET path == IF link.dir # 0 THEN <<link.dir, link.name>>
                ELSE IF r.base_dir # NoBase THEN <<r.base_dir, link.name>>
                ELSE <<0, link.name>>
    IN IF path \in tree
       THEN [kind |-> "Ok", bytes |-> <<"file", path[1], path[2]>>]
       ELSE [kind |-> "Err", bytes |-> <<>>]

\* cat on a network: the object the link names, wherever the resolver is based.
RemoteCat(r, link) ==
    IF link.name \in RemoteContent
    THEN [kind |-> "Ok", bytes |-> <<r.kind, 0, link.name>>]
    ELSE [kind |-> "Err", bytes |-> <<>>]

cat(r, link, tree) ==
    IF r.kind = "File" THEN FileCat(r, link, tree) ELSE RemoteCat(r, link)

\* A for_deployment that hands back the resolver it was called on, whatever
\* its kind.
for_deployment_same(r, deployment) == r

\* for_deployment: the file resolver gives a new resolver based at the build
\* directory of the deployment; the other resolvers give the current resolver.
for_deployment(r, deployment) ==
    IF r.kind = "File"
    THEN FileLinkResolver_new(BuildDir(deployment))
    ELSE r

\* The file trees: any set of files in the build directories.
FileTrees == SUBSET (Deployments \X FileNames)

\* A resolver of the run: the resolver, and for one made by for_deployment the
\* resolver it was made from (its place and what it was then) and the
\* deployment.
Made(r, parent, was, deployment) ==
    [r |-> r, parent |-> parent, was |-> was, deployment |-> deployment]

InitResolver ==
    /\ files \in FileTrees
    /\ resolvers \in { <<Made(r, 0, r, 0)>> :
                         r \in {DevResolver, RemoteResolver("Ipfs"), RemoteResolver("Arweave")} }
    /\ lastCat = NoCall
    /\ StoreIdle /\ TriggersIdle /\ AscIdle /\ RetryIdle /\ DevIdle /\ PtrIdle

\* resolver.for_deployment(hash): a new Box<dyn LinkResolver>; &self stays.
ForDeployment ==
    \E i \in 1..Len(resolvers), h \in Deployments :
        /\ Len(resolvers) < MaxResolvers
        /\ resolvers' = Append(resolvers,
                               Made(for_deployment(resolvers[i].r, h), i, resolvers[i].r, h))
        /\ UNCHANGED <<files, lastCat, exceptResolver>>

\* resolver.cat(logger, link)
Cat ==
    \E i \in 1..Len(resolvers), link \in Links :
        /\ lastCat = NoCall
        /\ lastCat' = [kind |-> "Call", resolver |-> i, link |-> link,
                       result |-> cat(resolvers[i].r, link, files)]
        /\ UNCHANGED <<files, resolvers, exceptResolver>>

\* The caller takes the outcome.
CatReturn ==
    /\ lastCat # NoCall
    /\ lastCat' = NoCall
    /\ UNCHANGED <<files, resolvers, exceptResolver>>

NextResolver == ForDeployment \/ Cat \/ CatReturn

SpecResolver == InitResolver /\ [][NextResolver]_vars

(***************************************************************************)
(* Claims about for_deployment.                                            *)
(***************************************************************************)
RelativeLink(name) == [dir |-> 0, name |-> name]

MaxTransient == 3

\* The retry setting of a resolver: whether it retries, and after how many
\* attempts it gives up (0: never).
PlainResolver == [retry |-> FALSE, max_attempts |-> 0]

\* A with_retries that gives up after two attempts.
with_retries_twice(r) == [retry |-> TRUE, max_attempts |-> 2]

\* with_retries: "Enables infinite retries."
with_retries(r) == [retry |-> TRUE, max_attempts |-> 0]

\* The final answers of a backend: the payload, or a semantic failure.
SemanticErrors == {"NotFound", "Malformed"}

Backends == [transient : 0..MaxTransient, final : {"Payload"} \cup SemanticErrors]

InitRetry ==
    /\ rcResolver = PlainResolver
    /\ rcBackend \in Backends
    /\ rcState = "Ready"
    /\ rcCall = NoCall
    /\ rcResult = NoCall
    /\ StoreIdle /\ TriggersIdle /\ AscIdle /\ ResolverIdle /\ DevIdle /\ PtrIdle

\* resolver.with_retries(): the caller goes on with the new resolver.
WithRetries ==
    /\ rcState = "Ready"
    /\ rcResolver = PlainResolver
    /\ rcResolver' = with_retries(rcResolver)
    /\ UNCHANGED <<rcBackend, rcState, rcCall, rcResult, exceptRetry>>

\* resolver.cat(logger, link) or resolver.get_block(logger, link) is called.
StartFetch ==
    \E op \in {"cat", "get_block"} :
        /\ rcState = "Ready"
        /\ rcState' = "Attempting"
        /\ rcCall' = [kind |-> "Call", op |-> op, attempts |-> 0, transient |-> 0]
        /\ UNCHANGED <<rcResolver, rcBackend, rcResult, exceptRetry>>

\* Whether the fetch goes on after a transient failure of its n-th attempt.
RetriesAfter(r, n) == r.retry /\ (r.max_attempts = 0 \/ n < r.max_attempts)

\* One attempt: the backend fails transiently (a timeout, a 5xx, a reset
\* connection) or gives its final answer. A transient failure is retried when
\* the resolver retries; a semantic failure and the payload are returned.
Attempt ==
    /\ rcState = "Attempting"
    /\ LET n == rcCall.attempts + 1
       IN IF rcBackend.transient > 0
          THEN /\ rcBackend' = [rcBackend EXCEPT !.transient = @ - 1]
               /\ rcCall' = [rcCall EXCEPT !.attempts = n, !.transient = @ + 1]
               /\ IF RetriesAfter(rcResolver, n)
                  THEN rcState' = "Backoff" /\ rcResult' = rcResult
                  ELSE /\ rcState' = "Returned"
                       /\ rcResult' = [kind |-> "Err", what |-> "Transient"]
          ELSE /\ rcBackend' = rcBackend
               /\ rcCall' = [rcCall EXCEPT !.attempts = n]
               /\ rcState' = "Returned"
               /\ rcResult' = IF rcBackend.final = "Payload"
                              THEN [kind |-> "Ok", what |-> "Payload"]
                              ELSE [kind |-> "Err", what |-> rcBackend.final]
    /\ UNCHANGED <<rcResolver, exceptRetry>>

\* The backoff delay is over: the next attempt starts.
BackoffElapsed ==
    /\ rcState = "Backoff"
    /\ rcState' = "Attempting"
    /\ UNCHANGED <<rcResolver, rcBackend, rcCall, rcResult, exceptRetry>>

\* The caller drops the fetch.
Cancel ==
    /\ rcState \in {"Attempting", "Backoff"}
    /\ rcState' = "Cancelled"
    /\ UNCHANGED <<rcResolver, rcBackend, rcCall, rcResult, exceptRetry>>

NextRetry == WithRetries \/ StartFetch \/ Attempt \/ BackoffElapsed \/ Cancel

SpecRetry == InitRetry /\ [][NextRetry]_vars

\* The runtime runs a fetch that is not cancelled: an attempt in flight ends
\* (the per-call timeout bounds it) and a backoff delay passes.
FairRetry == SpecRetry /\ WF_vars(Attempt) /\ WF_vars(BackoffElapsed)

(***************************************************************************)
(* Claims about with_retries.                                              *)
(***************************************************************************)
Retrying == rcState # "Off" /\ rcResolver = with_retries(PlainResolver)

\* A fetch on a retrying resolver returns no transient failure, and what it
\* returns, payload or semantic failure, it returns from the one attempt that
\* followed the transient failures.
RetrySafe ==
    (Retrying /\ rcState = "Returned") =>
        /\ rcResult.what # "Transient"
        /\ rcCall.attempts = rcCall.transient + 1
        /\ rcBackend.transient = 0
        /\ rcResult.kind = "Err" => rcResult.what \in SemanticErrors

\* A fetch on a retrying resolver whose backend answers with the payload after
\* its transient failures returns the payload, unless it is cancelled.
RetryLive ==
    (Retrying /\ rcState = "Attempting" /\ rcBackend.final = "Payload")
        ~> \/ rcState = "Returned" /\ rcResult = [kind |-> "Ok", what |-> "Payload"]
           \/ rcState = "Cancelled"

\* C8: a resolver from with_retries() retries a cat / get_block after every
\* transient failure, with no maximum: the call returns the payload of a
\* backend that fails transiently finitely often and then succeeds, unless it
\* is cancelled; a semantic failure is returned with no further attempt.
C8_RetriesUntilAnswer == []RetrySafe /\ RetryLive

\* A fetch on a retrying resolver has returned the payload after MaxTransient
\* transient failures.
C8_Witness ==
    /\ Retrying
    /\ rcState = "Returned"
    /\ rcResult = [kind |-> "Ok", what |-> "Payload"]
    /\ rcCall.transient = MaxTransient
    /\ rcCall.attempts = MaxTransient + 1

(***************************************************************************)
(* gnd (node/src/bin/dev.rs): main, get_database_url, build_args and the   *)
(* two spawned tasks.                                                      *)
(***************************************************************************)
\* The exit code of clap for a command line it rejects (Parser::parse and
\* Parser::parse_from exit the process), and for --help / --version.
ClapUsageExitCode == 2
ClapHelpExitCode == 0

\* A main that ends a returned Err with the code of a usage error.
MainErrExitCodeAsUsage == ClapUsageExitCode

\* The exit code of a main (-> Result<()>) that returns Err.
MainErrExitCode == 1

\* The exit code of a process whose main thread panics.
PanicExitCode == 101

\* std::process::exit(1) of the watcher task.
WatcherExitCode == 1

\* The command lines and builds: what clap makes of the arguments, --watch,
\* --postgres-url / POSTGRES_URL given or not, a unix build or not.
DevOpts ==
    [args : {"valid", "invalid", "help"}, watch : BOOLEAN,
     postgres_url : BOOLEAN, unix : BOOLEAN]

Exited(cause, code) == [kind |-> "Exit", cause |-> cause, code |-> code]

InitDev ==
    /\ devOpt \in DevOpts
    /\ devPc = "parse"
    /\ nodeTask = "None"
    /\ watcherTask = "None"
    /\ exit = NoCall
    /\ StoreIdle /\ TriggersIdle /\ AscIdle /\ ResolverIdle /\ RetryIdle /\ PtrIdle

Running == devPc \notin {"Off", "exited"}

\* let dev_opt = DevOpt::parse();
ParseDevOpt ==
    /\ devPc = "parse"
    /\ IF devOpt.args = "invalid"
       THEN devPc' = "exited" /\ exit' = Exited("flags", ClapUsageExitCode)
       ELSE IF devOpt.args = "help"
       THEN devPc' = "exited" /\ exit' = Exited("help", ClapHelpExitCode)
       ELSE devPc' = "db_url" /\ exit' = exit
    /\ UNCHANGED <<devOpt, nodeTask, watcherTask, exceptDev>>

\* get_database_url(..)?: the given URL; without one, on unix a temporary
\* database is started (start() returns the database, its failure is a
\* panic), and elsewhere the function bails and main returns the error.
GetDatabaseUrl ==
    /\ devPc = "db_url"
    /\ \E started \in BOOLEAN :
        IF devOpt.postgres_url \/ (devOpt.unix /\ started)
        THEN devPc' = "build_args" /\ exit' = exit
        ELSE IF devOpt.unix
        THEN devPc' = "exited" /\ exit' = Exited("db_url", PanicExitCode)
        ELSE devPc' = "exited" /\ exit' = Exited("db_url", MainErrExitCode)
    /\ UNCHANGED <<devOpt, nodeTask, watcherTask, exceptDev>>

\* build_args(&dev_opt, &db_url)?: Opt::parse_from(args) exits the process on
\* arguments it rejects; build_args itself returns Ok.
BuildArgs ==
    /\ devPc = "build_args"
    /\ \E accepted \in BOOLEAN :
        IF accepted
        THEN devPc' = "manifests" /\ exit' = exit
        ELSE devPc' = "exited" /\ exit' = Exited("node_flags", ClapUsageExitCode)
    /\ UNCHANGED <<devOpt, nodeTask, watcherTask, exceptDev>>

\* parse_manifest_args(..)?: main returns the error.
ParseManifestArgs ==
    /\ devPc = "manifests"
    /\ \E parsed \in BOOLEAN :
        IF parsed
        THEN devPc' = "spawn_node" /\ exit' = exit
        ELSE devPc' = "exited" /\ exit' = Exited("manifests", MainErrExitCode)
    /\ UNCHANGED <<devOpt, nodeTask, watcherTask, exceptDev>>

\* graph::spawn(async move { let _ = run_graph_node(opt, Some(ctx)).await; });
SpawnNode ==
    /\ devPc = "spawn_node"
    /\ devPc' = "spawn_watcher"
    /\ nodeTask' = "Spawned"
    /\ UNCHANGED <<devOpt, watcherTask, exit, exceptDev>>

\* run_graph_node: EnvVars::from_env()? returns an error that the task drops,
\* or launcher::run runs.
RunGraphNode ==
    /\ Running
    /\ nodeTask = "Spawned"
    /\ nodeTask' \in {"Launched", "EnvError"}
    /\ UNCHANGED <<devOpt, devPc, watcherTask, exit, exceptDev>>

\* if dev_opt.watch { graph::spawn_blocking(..) }, then main waits on
\* future::pending.
SpawnWatcher ==
    /\ devPc = "spawn_watcher"
    /\ devPc' = "pending"
    /\ watcherTask' = IF devOpt.watch THEN "Watching" ELSE watcherTask
    /\ UNCHANGED <<devOpt, nodeTask, exit, exceptDev>>

\* watch_subgraphs(..).await returns: on Err the error is logged and the
\* process exits with code 1, on Ok the task ends.
WatcherReturns ==
    /\ Running
    /\ watcherTask = "Watching"
    /\ \E failed \in BOOLEAN :
        IF failed
        THEN /\ watcherTask' = "Failed"
             /\ devPc' = "exited"
             /\ exit' = Exited("watcher", WatcherExitCode)
        ELSE /\ watcherTask' = "Ended"
             /\ devPc' = devPc
             /\ exit' = exit
    /\ UNCHANGED <<devOpt, nodeTask, exceptDev>>

NextDev ==
    \/ ParseDevOpt \/ GetDatabaseUrl \/ BuildArgs \/ ParseManifestArgs
    \/ SpawnNode \/ RunGraphNode \/ SpawnWatcher \/ WatcherReturns

SpecDev == InitDev /\ [][NextDev]_vars

(***************************************************************************)
(* Claims about the exit codes of gnd.                                     *)
(***************************************************************************)
HasExited == devPc = "exited" /\ exit # NoCall

\* C9 as stated: gnd exits with code 1 when the watcher returns an error and
\* with code 2 on a configuration error (invalid flags, a failure of
\* parse_manifest_args, a failure to obtain a database URL); no other path of
\* main ends the process with code 1 or 2.
C9_ExitCodesAsStated ==
    HasExited =>
        /\ exit.cause = "watcher" => exit.code = 1
        /\ exit.cause \in {"flags", "node_flags", "manifests", "db_url"} => exit.code = 2
        /\ exit.code = 1 => exit.cause = "watcher"
        /\ exit.code = 2 => exit.cause \in {"flags", "node_flags", "manifests", "db_url"}

\* C9 amended: gnd exits with code 1 when the watcher returns an error and
\* also when main returns an error (a failure of parse_manifest_args, or of
\* get_database_url on a build that is not unix); it exits with code 2 only
\* when clap rejects the command line or the arguments built for the node; a
\* temporary database that does not start on unix is a panic (code 101); no
\* other path of main ends the process with code 1 or 2.
C9_ExitCodes ==
    HasExited =>
        /\ exit.cause = "watcher" => exit.code = 1
        /\ exit.cause = "manifests" => exit.code = 1
        /\ exit.cause = "db_url" => exit.code = IF devOpt.unix THEN 101 ELSE 1
        /\ exit.cause \in {"flags", "node_flags"} => exit.code = 2
        /\ exit.code = 1 => \/ exit.cause \in {"watcher", "manifests"}
                            \/ exit.cause = "db_url" /\ ~devOpt.unix /\ ~devOpt.postgres_url
        /\ exit.code = 2 => exit.cause \in {"flags", "node_flags"}
        /\ exit.cause = "watcher" => devOpt.watch /\ watcherTask = "Failed"

\* gnd has exited because parse_manifest_args failed, with the code of a main
\* that returns Err.
C9_Witness ==
    /\ HasExited
    /\ exit.cause = "manifests"
    /\ exit.code = 1
    /\ devOpt.watch

(***************************************************************************)
(* MockSourcableStore: the block pointer and its operations.                *)
(***************************************************************************)
\* The block numbers followed are those within MaxPtrWindow of 0, of
\* i32::MAX and of i32::MIN.
MaxPtrWindow == 2

\* BlockNumber is i32.
I32Max == 2147483647

I32Min == -2147483647 - 1

BlockHashes == {"0xaa", "0xbb"}

\* BlockPtr::new(hash, number), held in an Option.
SomePtr(hash, number) == [some |-> TRUE, hash |-> hash, number |-> number]

NearZero == 0..MaxPtrWindow

NearMax == {I32Max - k : k \in 0..MaxPtrWindow}

NearMin == {I32Min + k : k \in 0..MaxPtrWindow}

Followed == NearZero \cup NearMax \cup NearMin

\* The pointers a caller sets: any hash, a non-negative number.
SetPtrs == {SomePtr(h, n) : h \in BlockHashes, n \in NearZero \cup NearMax}

\* `number + 1` and `number - 1` on i32: with overflow checks the operation
\* panics on overflow, without them it wraps around.
I32Add1(n, checks) ==
    IF n = I32Max
    THEN IF checks THEN [kind |-> "Panic"] ELSE [kind |-> "Ok", value |-> I32Min]
    ELSE [kind |-> "Ok", value |-> n + 1]

I32Sub1(n, checks) ==
    IF n = I32Min
    THEN IF checks THEN [kind |-> "Panic"] ELSE [kind |-> "Ok", value |-> I32Max]
    ELSE [kind |-> "Ok", value |-> n - 1]

\* Each operation gives the new block_ptr and what it returned.
set_block_ptr(self, ptr) == [block_ptr |-> ptr, result |-> "()"]

clear_block_ptr(self) == [block_ptr |-> NoPtr, result |-> "()"]

increment_block(self, checks) ==
    IF self.some
    THEN LET new_number == I32Add1(self.number, checks)
         IN IF new_number.kind = "Panic"
            THEN [block_ptr |-> self, result |-> "Panic"]
            ELSE [block_ptr |-> SomePtr(self.hash, new_number.value),
                  result |-> "Ok"]
    ELSE [block_ptr |-> self, result |-> "Err: No block pointer set"]

decrement_block(self, checks) ==
    IF self.some
    THEN IF self.number = 0
         THEN [block_ptr |-> self, result |-> "Err: Block number already at 0"]
         ELSE LET new_number == I32Sub1(self.number, checks)
              IN IF new_number.kind = "Panic"
                 THEN [block_ptr |-> self, result |-> "Panic"]
                 ELSE [block_ptr |-> SomePtr(self.hash, new_number.value),
                       result |-> "Ok"]
    ELSE [block_ptr |-> self, result |-> "Err: No block pointer set"]

\* MockSourcableStore::new(entities, schema, block_ptr), in either build.
InitPtr ==
    /\ block_ptr \in {NoPtr} \cup SetPtrs
    /\ overflowChecks \in BOOLEAN
    /\ ptrCall = NoCall
    /\ StoreIdle /\ TriggersIdle /\ AscIdle /\ ResolverIdle /\ RetryIdle
    /\ DevIdle

\* A panic ends the test that owns the store.
PtrAlive == ~(ptrCall # NoCall /\ ptrCall.result = "Panic")

PtrCalled(op, r) ==
    /\ block_ptr' = r.block_ptr
    /\ ptrCall' = [kind |-> "Call", op |-> op, before |-> block_ptr,
                   result |-> r.result]
    /\ UNCHANGED <<overflowChecks, exceptPtr>>

\* The results that stay within the numbers followed.
InWindow(r) == r.block_ptr.some => r.block_ptr.number \in Followed

SetBlockPtr ==
    /\ PtrAlive
    /\ \E ptr \in SetPtrs : PtrCalled("set_block_ptr", set_block_ptr(block_ptr, ptr))

ClearBlockPtr ==
    /\ PtrAlive
    /\ PtrCalled("clear_block_ptr", clear_block_ptr(block_ptr))

IncrementBlock ==
    /\ PtrAlive
    /\ InWindow(increment_block(block_ptr, overflowChecks))
    /\ PtrCalled("increment_block", increment_block(block_ptr, overflowChecks))

DecrementBlock ==
    /\ PtrAlive
    /\ InWindow(decrement_block(block_ptr, overflowChecks))
    /\ PtrCalled("decrement_block", decrement_block(block_ptr, overflowChecks))

NextPtr ==
    \/ SetBlockPtr
    \/ ClearBlockPtr
    \/ IncrementBlock
    \/ DecrementBlock

SpecPtr == InitPtr /\ [][NextPtr]_vars

(***************************************************************************)
(* The block pointer: claims.                                               *)
(***************************************************************************)
PtrOp(op) == ptrCall # NoCall /\ ptrCall.op = op

PtrUnchanged == block_ptr = ptrCall.before

PtrReturnedErr ==
    ptrCall.result \in {"Err: No block pointer set",
                        "Err: Block number already at 0"}

\* The number moved by exactly d (+1 or -1) and the hash stayed.
PtrMovedBy(d) ==
    /\ ptrCall.before.some /\ block_ptr.some
    /\ block_ptr.hash = ptrCall.before.hash
    /\ IF d = 1
       THEN ptrCall.before.number < I32Max
            /\ block_ptr.number = ptrCall.before.number + 1
       ELSE ptrCall.before.number > I32Min
            /\ block_ptr.number = ptrCall.before.number - 1

\* C11: after any sequence of set_block_ptr (non-negative numbers),
\* clear_block_ptr, increment_block and decrement_block, the pointer's number
\* is never negative; an increment_block / decrement_block that returns Ok
\* has moved the number by exactly +1 / -1 and kept the hash; increment_block
\* and decrement_block with no pointer set, and decrement_block at number 0,
\* return an error and leave block_ptr unchanged.
C11_BlockPtrOps ==
    /\ block_ptr.some => block_ptr.number >= 0
    /\ PtrOp("increment_block") /\ ptrCall.result = "Ok" => PtrMovedBy(1)
    /\ PtrOp("decrement_block") /\ ptrCall.result = "Ok" => PtrMovedBy(-1)
    /\ (PtrOp("increment_block") \/ PtrOp("decrement_block"))
       /\ ~ptrCall.before.some
       => PtrReturnedErr /\ PtrUnchanged
    /\ PtrOp("decrement_block") /\ ptrCall.before.some
       /\ ptrCall.before.number = 0
       => PtrReturnedErr /\ PtrUnchanged

\* The same, for the calls that stay below i32::MAX: what the code does hold.
C11_BlockPtrOpsBelowMax ==
    (ptrCall # NoCall /\ ptrCall.before.some => ptrCall.before.number >= 0)
    /\ ~(PtrOp("increment_block") /\ ptrCall.before.some
         /\ ptrCall.before.number = I32Max)
    => C11_BlockPtrOps

C11_Witness ==
    /\ PtrOp("increment_block")
    /\ ptrCall.before = SomePtr("0xaa", I32Max)
    /\ ptrCall.result = "Ok"

====
